---------------------------- MODULE Spec2Model ----------------------------
(***************************************************************************)
(* A model of the statement_parser extraction pipeline:                    *)
(*   - BaseExtractor.extract_files / extract_file / process_df and the     *)
(*     ExtractMeta cache (statement_parser/extractors/_base.py,            *)
(*     _transformers.py), run by one caller or by several upload requests  *)
(*     at once (app.py);                                                   *)
(*   - the transformers RowsCombine, RowsFilter, ExtractNewColumn and      *)
(*     ColumnsProcess with the DateColumn and NumericColumn coercions      *)
(*     (_transformers.py, _columns.py), as functions on small data frames. *)
(*                                                                         *)
(* A text cell is a sequence of one-character strings; a missing cell is   *)
(* NaN.  A data frame is a sequence of rows, a row a function from column  *)
(* names to cells.                                                         *)
(***************************************************************************)
EXTENDS Integers, Sequences, FiniteSets, TLC

VARIABLES
    \* ---- the extractor and its callers (_base.py, tabula.py, app.py) ----
    meta_dict,   \* meta_dict[i]: cache of the i-th transformer object of the layout's chain
    pc,          \* pc[r]: where request r is: "idle", "extract_file", "process_df"
    filepaths,   \* filepaths[r]: the batch handed to extract_files
    k,           \* k[r]: position of the current file in the batch
    t,           \* t[r]: position of the next transformer of the chain
    cur,         \* cur[r]: what the extraction step found in the current file
    kwargs,      \* kwargs[r]: the running context of process_df
    data,        \* data[r]: the per-file results collected so far
    outcome,     \* outcome[r]: "none", "returned" or "raised"
    error,       \* error[r]: the exception that left extract_files
    fault,       \* fault[r]: the failure that happened inside the batch (history)
    processed,   \* processed[r]: the files extract_file was called on (history)
    \* ---- one transformer applied to one data frame ----
    tfmr,        \* the transformer's configuration
    df,          \* its input frame
    ctx,         \* the keyword arguments (metadata context) it is called with
    out,         \* its result
    done         \* whether transform has run

extractorVars == <<meta_dict, pc, filepaths, k, t, cur, kwargs, data, outcome,
                   error, fault, processed>>
frameVars == <<tfmr, df, ctx, out, done>>
vars == <<meta_dict, pc, filepaths, k, t, cur, kwargs, data, outcome,
          error, fault, processed, tfmr, df, ctx, out, done>>

(***************************************************************************)
(* Bounds of the model.                                                    *)
(***************************************************************************)
NumRequests == 2      \* concurrent upload requests
NumFiles == 2         \* distinct statement files
MaxFiles == 2         \* files per batch

Requests == 1..NumRequests

\* the statement files a caller may hand in
FileName == <<"a.pdf", "b.pdf", "c.pdf", "d.pdf">>
FileIds == {FileName[i] : i \in 1..NumFiles}

(***************************************************************************)
(* Dictionaries (meta_dict, kwargs): functions from a set of keys.         *)
(***************************************************************************)
EmptyDict == [x \in {} |-> 0]

\* {**a, **b}: b's entries win
DictMerge(a, b) == [x \in DOMAIN a \cup DOMAIN b |->
                        IF x \in DOMAIN b THEN b[x] ELSE a[x]]

NoDate == ""
NoFile == ""
NoError == [file |-> NoFile, cause |-> "none"]

(***************************************************************************)
(* The layout's transformer chain: DbsCard._transformers.  The list is a   *)
(* class attribute, so its transformer objects, and their meta_dict, are   *)
(* the same objects for every extractor instance of the layout.            *)
(***************************************************************************)
Chain == <<"ExtractNewColumn", "ExtractNewColumn", "ExtractMeta", "ColumnsProcess">>

ChainKey == "stmt_date"

\* the value the ExtractMeta regex finds in a file: written as the file's name
\* (each file carries a date of its own), NoDate when no line of it matches
DateIn(c) == IF c.hasDate THEN c.id ELSE NoDate

\* ExtractMeta.transform on the cache m, for a file with content c
ExtractMetaTransform(m, c) ==
    IF ChainKey \in DOMAIN m THEN m
    ELSE IF c.hasDate THEN DictMerge(m, [x \in {ChainKey} |-> DateIn(c)])
    ELSE m

\* the exception extract_file raises for a failure e of _extract_file
WrapErrorUnnamed(filepath, e) == [file |-> NoFile, cause |-> e]

WrapError(filepath, e) == [file |-> filepath, cause |-> e]


(***************************************************************************)
(* The extractor's operations, for the request (caller) r.                 *)
(***************************************************************************)
Batches == UNION {[1..n -> FileIds] : n \in 1..MaxFiles}

\* an upload request that carries one file
Uploads == [1..1 -> FileIds]

NoContent == [id |-> NoFile, hasDate |-> FALSE]

ExtractorInit ==
    /\ meta_dict = [i \in 1..Len(Chain) |-> EmptyDict]
    /\ pc = [r \in Requests |-> "idle"]
    /\ filepaths = [r \in Requests |-> <<>>]
    /\ k = [r \in Requests |-> 1]
    /\ t = [r \in Requests |-> 1]
    /\ cur = [r \in Requests |-> NoContent]
    /\ kwargs = [r \in Requests |-> EmptyDict]
    /\ data = [r \in Requests |-> <<>>]
    /\ outcome = [r \in Requests |-> "none"]
    /\ error = [r \in Requests |-> NoError]
    /\ fault = [r \in Requests |-> NoError]
    /\ processed = [r \in Requests |-> <<>>]

\* upload_file / a library caller: extractor.extract_files(filepaths)
CallExtractFiles(r, batches) ==
    /\ pc[r] = "idle"
    /\ \E fp \in batches : filepaths' = [filepaths EXCEPT ![r] = fp]
    /\ pc' = [pc EXCEPT ![r] = "extract_file"]
    /\ k' = [k EXCEPT ![r] = 1]
    /\ t' = [t EXCEPT ![r] = 1]
    /\ cur' = [cur EXCEPT ![r] = NoContent]
    /\ kwargs' = [kwargs EXCEPT ![r] = EmptyDict]
    /\ data' = [data EXCEPT ![r] = <<>>]
    /\ outcome' = [outcome EXCEPT ![r] = "none"]
    /\ error' = [error EXCEPT ![r] = NoError]
    /\ fault' = [fault EXCEPT ![r] = NoError]
    /\ processed' = [processed EXCEPT ![r] = <<>>]
    /\ UNCHANGED <<meta_dict, frameVars>>

\* an exception e inside _extract_file: extract_file wraps it, extract_files
\* does not catch it, so the batch ends there (and the reset is not reached)
Raise(r, e) ==
    /\ fault' = [fault EXCEPT ![r] = [file |-> filepaths[r][k[r]], cause |-> e]]
    /\ error' = [error EXCEPT ![r] = WrapError(filepaths[r][k[r]], e)]
    /\ outcome' = [outcome EXCEPT ![r] = "raised"]
    /\ pc' = [pc EXCEPT ![r] = "idle"]

\* extract_file -> _extract_file: read_pdf, the column-count assertion and the
\* concatenation of the non-empty pages succeed; process_df starts
ExtractFileRead(r) ==
    /\ pc[r] = "extract_file"
    /\ k[r] <= Len(filepaths[r])
    /\ \E b \in BOOLEAN :
          cur' = [cur EXCEPT ![r] = [id |-> filepaths[r][k[r]], hasDate |-> b]]
    /\ processed' = [processed EXCEPT ![r] = Append(@, filepaths[r][k[r]])]
    /\ kwargs' = [kwargs EXCEPT ![r] = EmptyDict]
    /\ t' = [t EXCEPT ![r] = 1]
    /\ pc' = [pc EXCEPT ![r] = "process_df"]
    /\ UNCHANGED <<meta_dict, filepaths, k, data, outcome, error, fault, frameVars>>

\* ... or one of them fails
ExtractFileFails(r) ==
    /\ pc[r] = "extract_file"
    /\ k[r] <= Len(filepaths[r])
    /\ processed' = [processed EXCEPT ![r] = Append(@, filepaths[r][k[r]])]
    /\ \E e \in {"read_pdf", "column_count", "no_records"} : Raise(r, e)
    /\ UNCHANGED <<meta_dict, filepaths, k, t, cur, kwargs, data, frameVars>>

\* process_df: df = tfmr.transform(df, **kwargs) for the t-th transformer
Transform(r) ==
    /\ pc[r] = "process_df"
    /\ t[r] <= Len(Chain)
    /\ meta_dict' = IF Chain[t[r]] = "ExtractMeta"
                    THEN [meta_dict EXCEPT ![t[r]] = ExtractMetaTransform(@, cur[r])]
                    ELSE meta_dict
    /\ pc' = [pc EXCEPT ![r] = "merge"]
    /\ UNCHANGED <<filepaths, k, t, cur, kwargs, data, outcome, error, fault,
                   processed, frameVars>>

\* ... or the transformer raises
TransformFails(r) ==
    /\ pc[r] = "process_df"
    /\ t[r] <= Len(Chain)
    /\ Raise(r, "transformer")
    /\ UNCHANGED <<meta_dict, filepaths, k, t, cur, kwargs, data, processed, frameVars>>

\* process_df: kwargs = {**tfmr.meta_dict, **kwargs}
MergeMeta(r) ==
    /\ pc[r] = "merge"
    /\ kwargs' = [kwargs EXCEPT ![r] = DictMerge(meta_dict[t[r]], @)]
    /\ t' = [t EXCEPT ![r] = @ + 1]
    /\ pc' = [pc EXCEPT ![r] = "process_df"]
    /\ UNCHANGED <<meta_dict, filepaths, k, cur, data, outcome, error, fault,
                   processed, frameVars>>

\* the StatementDate process_df tags the file's records with
StatementDate(kw) == IF ChainKey \in DOMAIN kw THEN kw[ChainKey] ELSE NoDate

\* extract_files: "reset meta_dict between files"
ResetMeta(m) == [i \in DOMAIN m |-> EmptyDict]

\* process_df ends and tags the records, extract_file returns them,
\* extract_files appends them and resets every transformer's meta_dict
FinishFile(r) ==
    /\ pc[r] = "process_df"
    /\ t[r] > Len(Chain)
    /\ data' = [data EXCEPT ![r] =
                    Append(@, [file |-> cur[r].id, hasDate |-> cur[r].hasDate,
                               StatementDate |-> StatementDate(kwargs[r])])]
    /\ meta_dict' = ResetMeta(meta_dict)
    /\ k' = [k EXCEPT ![r] = @ + 1]
    /\ pc' = [pc EXCEPT ![r] = "extract_file"]
    /\ UNCHANGED <<filepaths, t, cur, kwargs, outcome, error, fault, processed,
                   frameVars>>

\* extract_files: return pd.concat(data)
ReturnResult(r) ==
    /\ pc[r] = "extract_file"
    /\ k[r] > Len(filepaths[r])
    /\ outcome' = [outcome EXCEPT ![r] = "returned"]
    /\ pc' = [pc EXCEPT ![r] = "idle"]
    /\ UNCHANGED <<meta_dict, filepaths, k, t, cur, kwargs, data, error, fault,
                   processed, frameVars>>

ExtractorStep(r, batches) ==
    \/ CallExtractFiles(r, batches)
    \/ ExtractFileRead(r)
    \/ ExtractFileFails(r)
    \/ Transform(r)
    \/ TransformFails(r)
    \/ MergeMeta(r)
    \/ FinishFile(r)
    \/ ReturnResult(r)

\* the frame variables when only the extractor is studied
FrameIdle ==
    /\ tfmr = [kind |-> "none"]
    /\ df = <<>>
    /\ ctx = EmptyDict
    /\ out = [raised |-> FALSE, rows |-> <<>>]
    /\ done = FALSE

(***************************************************************************)
(* SpecBatch: one caller uses the layout, batch after batch.               *)
(***************************************************************************)
InitBatch == ExtractorInit /\ FrameIdle

NextBatch == ExtractorStep(1, Batches)

SpecBatch == InitBatch /\ [][NextBatch]_vars

(***************************************************************************)
(* SpecUploads: several upload requests use the layout at once, each with  *)
(* an extractor instance of its own (app.py runs the handler in threads).  *)
(***************************************************************************)
InitUploads == ExtractorInit /\ FrameIdle

NextUploads == \E r \in Requests : ExtractorStep(r, Uploads)

SpecUploads == InitUploads /\ [][NextUploads]_vars

(***************************************************************************)
(* Text cells and data frames.                                             *)
(***************************************************************************)
MaxRows == 3          \* rows of a data frame

NaN == <<"NaN">>

IsNull(c) == c = NaN

\* f'{i}' / astype(str) of a cell
Format(c) == IF IsNull(c) THEN <<"n", "a", "n">> ELSE c

\* fillna('')
FillNa(c) == IF IsNull(c) THEN <<>> ELSE c

\* sep.join(parts)
RECURSIVE Join(_, _)
Join(parts, sep) ==
    IF Len(parts) = 0 THEN <<>>
    ELSE IF Len(parts) = 1 THEN parts[1]
    ELSE parts[1] \o sep \o Join(Tail(parts), sep)

\* whether sub occurs in text
Contains(text, sub) ==
    \E i \in 0..(Len(text) - Len(sub)) : SubSeq(text, i + 1, i + Len(sub)) = sub

\* _get_lines: the cells of the columns cols of a row, nulls as '', joined by ''
GetLine(row, cols) == Join([i \in 1..Len(cols) |-> FillNa(row[cols[i]])], <<>>)

DigitChar == <<"1", "2", "3", "4", "5", "6", "7", "8", "9">>

\* the text cell of column c in physical row i: it names its own position
Val(c, i) == <<c, DigitChar[i]>>

\* the result of a transform call
Returned(rows) == [raised |-> FALSE, rows |-> rows]
Raised == [raised |-> TRUE, rows |-> <<>>]

NotRun == Returned(<<>>)

(***************************************************************************)
(* RowsCombine.transform                                                   *)
(***************************************************************************)
Range(seq) == {seq[i] : i \in DOMAIN seq}

\* df[anchor_cols].notnull().any(axis=1)
HasAnchor(row, anchor_cols) == \E c \in Range(anchor_cols) : ~IsNull(row[c])

\* ....cumsum(): the group id of row i
GroupId(frame, anchor_cols, i) ==
    Cardinality({j \in 1..i : HasAnchor(frame[j], anchor_cols)})

\* the rows of group g, in physical order (a group's rows are adjacent)
GroupRows(frame, anchor_cols, g) ==
    LET idx == {i \in 1..Len(frame) : GroupId(frame, anchor_cols, i) = g}
        lo == CHOOSE i \in idx : \A j \in idx : i <= j
        hi == CHOOSE i \in idx : \A j \in idx : i >= j
    IN  SubSeq(frame, lo, hi)

\* GroupBy.first(): the first non-null value of the column in the group
RECURSIVE GroupFirst(_, _)
GroupFirst(rows, c) ==
    IF Len(rows) = 0 THEN NaN
    ELSE IF ~IsNull(rows[1][c]) THEN rows[1][c]
    ELSE GroupFirst(Tail(rows), c)

\* sep.join([f'{i}' for i in r]) over the group's cells of the column
GroupConcat(rows, c, sep) == Join([i \in 1..Len(rows) |-> Format(rows[i][c])], sep)

CombineGroup(rows, tf) ==
    [c \in Range(tf.anchor_cols) \cup Range(tf.concat_cols) \cup Range(tf.first_cols) |->
        IF c \in Range(tf.anchor_cols) THEN GroupFirst(rows, c)
        ELSE IF c \in Range(tf.concat_cols) THEN GroupConcat(rows, c, tf.sep)
        ELSE GroupFirst(rows, c)]

RowsCombineTransform(tf, frame) ==
    LET maxg == GroupId(frame, tf.anchor_cols, Len(frame))
        ming == GroupId(frame, tf.anchor_cols, 1)
    IN  IF maxg = 0 THEN <<>>
        ELSE [g \in 1..(maxg - ming + 1) |->
                 CombineGroup(GroupRows(frame, tf.anchor_cols, ming + g - 1), tf)]

\* the DbsCasa shape (tabula.py): several anchor columns, one concat column, one
\* first column; the separator of test_rows_combine
CombineConfig ==
    [kind |-> "RowsCombine", anchor_cols |-> <<"A", "C">>, concat_cols |-> <<"B">>,
     first_cols |-> <<"F">>, sep |-> <<"|">>]

CombineCols == {"A", "C", "B", "F"}

\* the frames of n rows whose cells are missing or name their position
PositionFrames(cols, n) ==
    {[i \in 1..n |-> [c \in cols |-> IF present[i][c] THEN Val(c, i) ELSE NaN]] :
        present \in [1..n -> [cols -> BOOLEAN]]}

ExtractorIdle == ExtractorInit

InitCombine ==
    /\ ExtractorIdle
    /\ tfmr = CombineConfig
    /\ df \in UNION {PositionFrames(CombineCols, n) : n \in 1..MaxRows}
    /\ ctx = EmptyDict
    /\ out = NotRun
    /\ done = FALSE

ApplyRowsCombine ==
    /\ ~done
    /\ tfmr.kind = "RowsCombine"
    /\ out' = Returned(RowsCombineTransform(tfmr, df))
    /\ done' = TRUE
    /\ UNCHANGED <<tfmr, df, ctx, extractorVars>>

NextCombine == ApplyRowsCombine

SpecCombine == InitCombine /\ [][NextCombine]_vars

(***************************************************************************)
(* RowsFilter.transform                                                    *)
(***************************************************************************)
MaxPatterns == 2      \* exclusion patterns of a RowsFilter

\* the alternatives of a regex made of literals joined by '|'
RECURSIVE Alternatives(_)
Alternatives(regex) ==
    IF \A i \in 1..Len(regex) : regex[i] # "|" THEN {regex}
    ELSE LET bar == CHOOSE i \in 1..Len(regex) :
                        regex[i] = "|" /\ \A j \in 1..(i - 1) : regex[j] # "|"
         IN  {SubSeq(regex, 1, bar - 1)}
                 \cup Alternatives(SubSeq(regex, bar + 1, Len(regex)))

\* re.search(regex, text) for such a regex
RegexSearch(regex, text) == \E alt \in Alternatives(regex) : Contains(text, alt)

\* Series.str.contains(regex): NaN for a missing cell
StrContains(cell, regex) ==
    IF IsNull(cell) THEN "nan"
    ELSE IF RegexSearch(regex, cell) THEN "True" ELSE "False"

\* df[~is_invalid]
RECURSIVE SelectValid(_, _)
SelectValid(frame, is_invalid) ==
    IF Len(frame) = 0 THEN <<>>
    ELSE (IF is_invalid[1] = "False" THEN <<frame[1]>> ELSE <<>>)
             \o SelectValid(Tail(frame), Tail(is_invalid))

\* the columns of the frames RowsFilter and ExtractNewColumn are applied to
FrameCols == <<"A", "B">>

\* ~ on a mask that holds NaN (object dtype) raises TypeError
RowsFilterTransform(tf, frame) ==
    IF Len(frame) = 0 THEN Returned(frame)
    ELSE LET regex == Join(tf.exclude_regex, <<"|">>)
             is_invalid == [i \in 1..Len(frame) |->
                               IF tf.column # ""
                               THEN StrContains(frame[i][tf.column], regex)
                               ELSE StrContains(GetLine(frame[i], FrameCols), regex)]
         IN  IF \E i \in 1..Len(frame) : is_invalid[i] = "nan" THEN Raised
             ELSE Returned(SelectValid(frame, is_invalid))

FilterCells == {NaN, <<"x">>, <<"y">>}

FilterPatterns == {<<"x">>, <<"y", "x">>}

\* the frames of n rows with cells from a set
Frames(cols, cells, n) == [1..n -> [cols -> cells]]

InitFilter ==
    /\ ExtractorIdle
    /\ \E ps \in UNION {[1..n -> FilterPatterns] : n \in 0..MaxPatterns},
          col \in {"", "A"} :
          tfmr = [kind |-> "RowsFilter", exclude_regex |-> ps, column |-> col]
    /\ df \in UNION {Frames(Range(FrameCols), FilterCells, n) : n \in 0..MaxRows}
    /\ ctx = EmptyDict
    /\ out = NotRun
    /\ done = FALSE

ApplyRowsFilter ==
    /\ ~done
    /\ tfmr.kind = "RowsFilter"
    /\ out' = RowsFilterTransform(tfmr, df)
    /\ done' = TRUE
    /\ UNCHANGED <<tfmr, df, ctx, extractorVars>>

NextFilter == ApplyRowsFilter

SpecFilter == InitFilter /\ [][NextFilter]_vars

(***************************************************************************)
(* ExtractNewColumn.transform, for a regex made of a literal prefix and    *)
(* one capture group that takes a run of characters of a class, as the     *)
(* AccountNumber regex of the DbsCasa layout.                              *)
(***************************************************************************)
\* the positions where the literal prefix occurs in the line
PrefixAt(line, prefix) ==
    {i \in 1..(Len(line) - Len(prefix) + 1) : SubSeq(line, i, i + Len(prefix) - 1) = prefix}

\* the longest run of characters of the class that starts at position i
RECURSIVE ClassRun(_, _, _)
ClassRun(line, i, class) ==
    IF i > Len(line) \/ line[i] \notin class THEN <<>>
    ELSE <<line[i]>> \o ClassRun(line, i + 1, class)

\* Series.str.extract(regex) on one line: the first capture group of the
\* leftmost match, NaN when the regex does not match
StrExtract(line, regex) ==
    IF PrefixAt(line, regex.prefix) = {} THEN NaN
    ELSE LET at == CHOOSE i \in PrefixAt(line, regex.prefix) :
                       \A j \in PrefixAt(line, regex.prefix) : i <= j
         IN  ClassRun(line, at + Len(regex.prefix), regex.class)

\* ffill: a null takes the value carried from the rows before it
RECURSIVE FFillFrom(_, _)
FFillFrom(values, carried) ==
    IF Len(values) = 0 THEN <<>>
    ELSE LET v == IF IsNull(values[1]) THEN carried ELSE values[1]
         IN  <<v>> \o FFillFrom(Tail(values), v)

\* a fill that looks at the rows after a null instead
RECURSIVE BFill(_)
BFill(values) ==
    IF Len(values) = 0 THEN <<>>
    ELSE LET rest == BFill(Tail(values))
         IN  <<IF IsNull(values[1]) /\ Len(rest) > 0 THEN rest[1] ELSE values[1]>> \o rest

FFill(values) == FFillFrom(values, NaN)

ExtractNewColumnTransform(tf, frame) ==
    LET cols == IF Len(tf.regex_columns) > 0 THEN tf.regex_columns ELSE FrameCols
        extracted == [i \in 1..Len(frame) |-> StrExtract(GetLine(frame[i], cols), tf.regex)]
        filled == FFill(extracted)
    IN  [i \in 1..Len(frame) |->
            [c \in DOMAIN frame[i] \cup {tf.name} |->
                IF c = tf.name THEN filled[i] ELSE frame[i][c]]]

DeriveCells == {NaN, <<"K">>, <<"1">>, <<"K", "2">>}

DeriveRegex == [prefix |-> <<"K">>, class |-> {"1", "2"}]

InitDerive ==
    /\ ExtractorIdle
    /\ \E rc \in {<<>>, <<"B">>, <<"A", "B">>} :
          tfmr = [kind |-> "ExtractNewColumn", name |-> "N", regex |-> DeriveRegex,
                  regex_columns |-> rc]
    /\ df \in UNION {Frames(Range(FrameCols), DeriveCells, n) : n \in 1..MaxRows}
    /\ ctx = EmptyDict
    /\ out = NotRun
    /\ done = FALSE

ApplyExtractNewColumn ==
    /\ ~done
    /\ tfmr.kind = "ExtractNewColumn"
    /\ out' = Returned(ExtractNewColumnTransform(tfmr, df))
    /\ done' = TRUE
    /\ UNCHANGED <<tfmr, df, ctx, extractorVars>>

NextDerive == ApplyExtractNewColumn

SpecDerive == InitDerive /\ [][NextDerive]_vars

(***************************************************************************)
(* Coerced cells: a number, a date <<year, month, day>>, or null.          *)
(***************************************************************************)
Null == [null |-> TRUE]
NumV(n) == [null |-> FALSE, num |-> n]
DateV(d) == [null |-> FALSE, date |-> d]

Digits == {"0", "1", "2", "3", "4", "5", "6", "7", "8", "9"}

DigitVal(c) ==
    CASE c = "0" -> 0 [] c = "1" -> 1 [] c = "2" -> 2 [] c = "3" -> 3 [] c = "4" -> 4
      [] c = "5" -> 5 [] c = "6" -> 6 [] c = "7" -> 7 [] c = "8" -> 8 [] c = "9" -> 9

AllDigits(text) == \A i \in 1..Len(text) : text[i] \in Digits

\* the number a run of digits denotes
RECURSIVE Decimal(_)
Decimal(text) ==
    IF Len(text) = 0 THEN 0
    ELSE 10 * Decimal(SubSeq(text, 1, Len(text) - 1)) + DigitVal(text[Len(text)])

\* str.replace(ch, '', regex=False)
Remove(text, ch) == SelectSeq(text, LAMBDA c : c # ch)

(***************************************************************************)
(* NumericColumn._process, cell by cell                                    *)
(***************************************************************************)
MaxCellLen == 4       \* characters of an enumerated numeric cell

\* str.contains(r'\d+-')
HasDigitMinus(text) ==
    \E i \in 1..(Len(text) - 1) : text[i] \in Digits /\ text[i + 1] = "-"

\* "replace xxx- with xxx": every '-' of a cell that holds a digit followed by '-'
StripMinus(cell) ==
    IF ~IsNull(cell) /\ HasDigitMinus(cell) THEN Remove(cell, "-") ELSE cell

\* remove '$', then ','
StripCurrency(cell) == IF IsNull(cell) THEN cell ELSE Remove(Remove(cell, "$"), ",")

EndsWithCR(text) ==
    Len(text) >= 3 /\ SubSeq(text, Len(text) - 2, Len(text)) = <<" ", "C", "R">>

\* "replace xxx CR$ with -xxx"
CreditToMinus(cell) ==
    IF ~IsNull(cell) /\ EndsWithCR(cell)
    THEN <<"-">> \o SubSeq(cell, 1, Len(cell) - 3)
    ELSE cell

\* "replace (xxx) with -xxx": every '(' becomes '-', every ')' goes
ParenToMinus(cell) ==
    IF ~IsNull(cell) /\ Contains(cell, <<"(">>)
    THEN Remove([i \in 1..Len(cell) |-> IF cell[i] = "(" THEN "-" ELSE cell[i]], ")")
    ELSE cell

\* the text without the blanks at its ends
RECURSIVE Strip(_)
Strip(text) ==
    IF Len(text) > 0 /\ text[1] = " " THEN Strip(Tail(text))
    ELSE IF Len(text) > 0 /\ text[Len(text)] = " "
         THEN Strip(SubSeq(text, 1, Len(text) - 1))
    ELSE text

\* pd.to_numeric(errors='coerce') on whole numbers: blanks at the ends are
\* skipped, one leading '-' is the sign, the rest must be digits
ToNumeric(cell) ==
    IF IsNull(cell) THEN Null
    ELSE LET text == Strip(cell)
             body == IF Len(text) > 0 /\ text[1] = "-" THEN Tail(text) ELSE text
         IN  IF Len(body) = 0 \/ ~AllDigits(body) THEN Null
             ELSE IF body = text THEN NumV(Decimal(body)) ELSE NumV(0 - Decimal(body))

\* ss = - ss
FlipSign(v, flip_sign) == IF flip_sign /\ ~v.null THEN NumV(0 - v.num) ELSE v

NumericProcess(col, cell) ==
    FlipSign(ToNumeric(ParenToMinus(CreditToMinus(StripCurrency(StripMinus(cell))))),
             col.flip_sign)

NumericAlphabet == {"0", "1", "-", ",", "$", "(", ")", " ", "C", "R"}

\* the cells of test_columns_process and of the documented notations
NumericExamples ==
    { <<"2", "0", ",", "0", "0", "0">>, <<"(", "1", "0", ",", "2", "0", "0", ")">>,
      <<"1", "5", "0", "-">>, <<"7", "5", " ", "C", "R">> }

NumericCells ==
    UNION {[1..n -> NumericAlphabet] : n \in 0..MaxCellLen} \cup NumericExamples \cup {NaN}

InitNumeric ==
    /\ ExtractorIdle
    /\ \E flip \in BOOLEAN :
          tfmr = [kind |-> "NumericColumn", name |-> "N", drop_null |-> FALSE,
                  flip_sign |-> flip]
    /\ \E cell \in NumericCells : df = <<[N |-> cell]>>
    /\ ctx = EmptyDict
    /\ out = NotRun
    /\ done = FALSE

\* col.process(df[col.name])
ApplyNumericColumn ==
    /\ ~done
    /\ tfmr.kind = "NumericColumn"
    /\ out' = Returned([i \in 1..Len(df) |->
                           [c \in {tfmr.name} |-> NumericProcess(tfmr, df[i][tfmr.name])]])
    /\ done' = TRUE
    /\ UNCHANGED <<tfmr, df, ctx, extractorVars>>

NextNumeric == ApplyNumericColumn

SpecNumeric == InitNumeric /\ [][NextNumeric]_vars

(***************************************************************************)
(* DateColumn._process, cell by cell.  A format is a sequence of           *)
(* directives ("%d", "%m", "%Y") and literal characters.                   *)
(***************************************************************************)
FirstYear == 2010     \* the year of the cells of test_columns_process
NumYears == 2         \* years the reference dates and the cells range over
ShiftDays == 300

Years == FirstYear..(FirstYear + NumYears - 1)

IsLeap(y) == (y % 4 = 0 /\ y % 100 # 0) \/ y % 400 = 0

DaysInMonth(y, m) ==
    IF m = 2 THEN (IF IsLeap(y) THEN 29 ELSE 28)
    ELSE IF m \in {4, 6, 9, 11} THEN 30 ELSE 31

ValidDate(y, m, d) == m \in 1..12 /\ d >= 1 /\ d <= DaysInMonth(y, m)

RECURSIVE DaysBeforeMonth(_, _)
DaysBeforeMonth(y, m) ==
    IF m = 1 THEN 0 ELSE DaysBeforeMonth(y, m - 1) + DaysInMonth(y, m - 1)

\* the number of the day in the proleptic Gregorian calendar
DayNumber(date) ==
    LET y == date[1] - 1
    IN  365 * y + (y \div 4) - (y \div 100) + (y \div 400)
            + DaysBeforeMonth(date[1], date[2]) + date[3]

DigitOf(n) == CHOOSE c \in Digits : DigitVal(c) = n

\* str(n) of a two-digit and of a four-digit number
TwoDigits(n) == <<DigitOf(n \div 10), DigitOf(n % 10)>>
YearText(y) == TwoDigits(y \div 100) \o TwoDigits(y % 100)

Directives == {"%d", "%m", "%Y"}

\* the widths a directive's field may have
Widths(tok) == IF tok = "%Y" THEN {4} ELSE {1, 2}

\* whether the digits are a value of the directive
FieldOk(tok, digits) ==
    /\ AllDigits(digits)
    /\ tok = "%d" => Decimal(digits) \in 1..31
    /\ tok = "%m" => Decimal(digits) \in 1..12

\* the fields strptime starts from
DefaultFields == [Y |-> 1900, m |-> 1, d |-> 1]

PutField(f, tok, v) ==
    IF tok = "%Y" THEN [f EXCEPT !.Y = v]
    ELSE IF tok = "%m" THEN [f EXCEPT !.m = v]
    ELSE [f EXCEPT !.d = v]

\* the ways the whole text matches the format
RECURSIVE Parses(_, _)
Parses(text, fmt) ==
    IF Len(fmt) = 0 THEN (IF Len(text) = 0 THEN {DefaultFields} ELSE {})
    ELSE IF fmt[1] \in Directives
    THEN UNION { {PutField(f, fmt[1], Decimal(SubSeq(text, 1, n))) :
                     f \in Parses(SubSeq(text, n + 1, Len(text)), Tail(fmt))} :
                 n \in {w \in Widths(fmt[1]) :
                           w <= Len(text) /\ FieldOk(fmt[1], SubSeq(text, 1, w))} }
    ELSE IF Len(text) > 0 /\ text[1] = fmt[1] THEN Parses(Tail(text), Tail(fmt))
    ELSE {}

\* pd.to_datetime(errors='coerce', format=fmt) on one cell
ToDatetime(text, fmt) ==
    LET ps == {f \in Parses(text, fmt) : ValidDate(f.Y, f.m, f.d)}
    IN  IF ps = {} THEN Null
        ELSE LET f == CHOOSE g \in ps : TRUE IN DateV(<<f.Y, f.m, f.d>>)

\* (ss - stmt_date).dt.days >= 300
ExceedsShiftInclusive(days) == days >= ShiftDays

\* (ss - stmt_date).dt.days > 300
ExceedsShift(days) == days > ShiftDays

\* ss - pd.DateOffset(years=1): the day is cut to the month's length
SubtractYear(date) ==
    <<date[1] - 1, date[2],
      IF date[3] > DaysInMonth(date[1] - 1, date[2])
      THEN DaysInMonth(date[1] - 1, date[2]) ELSE date[3]>>

DateProcess(col, cell, kw) ==
    LET withYear == "%Y" \notin Range(col.format) /\ "stmt_date" \in DOMAIN kw
        text == IF withYear THEN Format(cell) \o <<" ">> \o YearText(kw["stmt_date"][1])
                ELSE cell
        fmt == IF withYear THEN col.format \o <<" ", "%Y">> ELSE col.format
        parsed == IF IsNull(text) THEN Null ELSE ToDatetime(text, fmt)
    IN  IF /\ "stmt_date" \in DOMAIN kw
           /\ ~parsed.null
           /\ ExceedsShift(DayNumber(parsed.date) - DayNumber(kw["stmt_date"]))
        THEN DateV(SubtractYear(parsed.date))
        ELSE parsed

\* the formats of OcbcCard ('%d/%m') and of test_columns_process ('%Y%m')
DayMonthFormat == <<"%d", "/", "%m">>
YearMonthFormat == <<"%Y", "%m">>

\* 'dd/mm' cells, also such that are no day of any year
DayMonthCells == {TwoDigits(d) \o <<"/">> \o TwoDigits(m) : d \in 0..32, m \in 1..12}

\* 'yyyymm' cells
YearMonthCells == {YearText(y) \o TwoDigits(m) : y \in Years, m \in 0..13}

RefYears == (FirstYear + 1)..(FirstYear + NumYears)

\* the statement dates: every day of the reference years
RefDates == {r \in RefYears \X (1..12) \X (1..31) : ValidDate(r[1], r[2], r[3])}

DateCase(format, cell, kw) ==
    /\ tfmr = [kind |-> "DateColumn", name |-> "D", drop_null |-> FALSE, format |-> format]
    /\ df = <<[D |-> cell]>>
    /\ ctx = kw

InitDate ==
    /\ ExtractorIdle
    /\ \/ \E c \in DayMonthCells, r \in RefDates :
             DateCase(DayMonthFormat, c, [x \in {"stmt_date"} |-> r])
       \/ \E c \in DayMonthCells \cup {NaN, <<"x">>} :
             DateCase(DayMonthFormat, c, EmptyDict)
       \/ \E c \in YearMonthCells : DateCase(YearMonthFormat, c, EmptyDict)
       \/ \E c \in YearMonthCells, y \in RefYears :
             DateCase(YearMonthFormat, c, [x \in {"stmt_date"} |-> <<y, 1, 1>>])
    /\ out = NotRun
    /\ done = FALSE

\* col.process(df[col.name], **kwargs)
ApplyDateColumn ==
    /\ ~done
    /\ tfmr.kind = "DateColumn"
    /\ out' = Returned([i \in 1..Len(df) |->
                           [c \in {tfmr.name} |-> DateProcess(tfmr, df[i][tfmr.name], ctx)]])
    /\ done' = TRUE
    /\ UNCHANGED <<tfmr, df, ctx, extractorVars>>

NextDate == ApplyDateColumn

SpecDate == InitDate /\ [][NextDate]_vars

(***************************************************************************)
(* ColumnsProcess.transform                                                *)
(***************************************************************************)
\* col.process(ss, **kwargs) on one cell
ColumnProcess(col, cell, kw) ==
    IF col.kind = "DateColumn" THEN DateProcess(col, cell, kw)
    ELSE NumericProcess(col, cell)

\* df[col.name] = col.process(df[col.name], **kwargs)
CoerceColumn(frame, col, kw) ==
    [i \in 1..Len(frame) |->
        [frame[i] EXCEPT ![col.name] = ColumnProcess(col, @, kw)]]

\* a version that removes the rows with a null whatever drop_null says
DropNullAlways(frame, col) == SelectSeq(frame, LAMBDA row : ~row[col.name].null)

\* if col.drop_null: df = df[~df[col.name].isnull()]
DropNull(frame, col) ==
    IF col.drop_null THEN SelectSeq(frame, LAMBDA row : ~row[col.name].null)
    ELSE frame

\* for col in self.columns: coerce the column, then drop its nulls
RECURSIVE ColumnsLoop(_, _, _)
ColumnsLoop(frame, columns, kw) ==
    IF Len(columns) = 0 THEN frame
    ELSE ColumnsLoop(DropNull(CoerceColumn(frame, columns[1], kw), columns[1]),
                     Tail(columns), kw)

ColumnsProcessTransform(tf, frame, kw) == ColumnsLoop(frame, tf.columns, kw)

\* the columns of the card layouts: a day/month date and an amount
DateSpec(drop) ==
    [kind |-> "DateColumn", name |-> "D", drop_null |-> drop, format |-> DayMonthFormat]

NumericSpec(drop) ==
    [kind |-> "NumericColumn", name |-> "N", drop_null |-> drop, flip_sign |-> FALSE]

\* a day of every year, a day of no year, a missing cell
ProcessDateCells == {<<"0", "5", "/", "0", "1">>, <<"3", "1", "/", "0", "2">>, NaN}

\* a number, text that is no number, a missing cell
ProcessNumericCells == {<<"1", "2">>, <<"C", "R">>, NaN}

InitColumns ==
    /\ ExtractorIdle
    /\ \E dropD \in BOOLEAN, dropN \in BOOLEAN, dateFirst \in BOOLEAN :
          tfmr = [kind |-> "ColumnsProcess",
                  columns |-> IF dateFirst THEN <<DateSpec(dropD), NumericSpec(dropN)>>
                              ELSE <<NumericSpec(dropN), DateSpec(dropD)>>]
    /\ df \in UNION {[1..n -> [D : ProcessDateCells, N : ProcessNumericCells]] :
                        n \in 1..MaxRows}
    /\ ctx \in {EmptyDict, [x \in {"stmt_date"} |-> <<FirstYear + 1, 1, 5>>]}
    /\ out = NotRun
    /\ done = FALSE

ApplyColumnsProcess ==
    /\ ~done
    /\ tfmr.kind = "ColumnsProcess"
    /\ out' = Returned(ColumnsProcessTransform(tfmr, df, ctx))
    /\ done' = TRUE
    /\ UNCHANGED <<tfmr, df, ctx, extractorVars>>

NextColumns == ApplyColumnsProcess

SpecColumns == InitColumns /\ [][NextColumns]_vars

(***************************************************************************)
(* C1: whenever a file's transformer chain starts, every transformer's     *)
(* meta_dict is empty, and the StatementDate a file's records are tagged   *)
(* with is a value extracted from that same file (or none), in batches     *)
(* that follow each other and after runs that failed partway.              *)
(* The code resets the caches only after a file that succeeded, so this    *)
(* is violated (checked under SpecBatch).                                  *)
(***************************************************************************)
C1_CacheEmptyAtFileStart ==
    \A r \in Requests :
        /\ (pc[r] = "process_df" /\ t[r] = 1) =>
               \A i \in DOMAIN meta_dict : meta_dict[i] = EmptyDict
        /\ \A j \in DOMAIN data[r] :
               data[r][j].StatementDate \in {NoDate, data[r][j].file}

(***************************************************************************)
(* C2: when several requests process files of the layout at once, every    *)
(* file's result is the one of running that file alone: its records are    *)
(* tagged with the file's own date if it has one, with none otherwise.     *)
(* The transformer objects are shared by all instances of the layout, so   *)
(* this is violated (checked under SpecUploads).                           *)
(***************************************************************************)
C2_ConcurrentRunsIndependent ==
    \A r \in Requests : \A j \in DOMAIN data[r] :
        data[r][j].StatementDate =
            (IF data[r][j].hasDate THEN data[r][j].file ELSE NoDate)

(***************************************************************************)
(* C9: if the extraction step, the column-count assertion or a transformer *)
(* fails for file k of a batch, extract_files ends with an error that      *)
(* names file k, returns no result, and has called extract_file on the     *)
(* files up to k only (checked under SpecBatch).                           *)
(***************************************************************************)
C9_FailureNamesFile ==
    \A r \in Requests :
        fault[r].file # NoFile =>
            /\ outcome[r] = "raised"
            /\ pc[r] = "idle"
            /\ error[r].file = filepaths[r][k[r]]
            /\ error[r] = fault[r]
            /\ processed[r] = SubSeq(filepaths[r], 1, k[r])

\* the first file of a two-file batch failed in a transformer: the second file
\* was never processed
C9_Witness ==
    /\ outcome[1] = "raised"
    /\ fault[1].cause = "transformer"
    /\ k[1] = 1
    /\ Len(filepaths[1]) = 2
    /\ filepaths[1][1] # filepaths[1][2]
    /\ error[1].file = filepaths[1][1]
    /\ processed[1] = <<filepaths[1][1]>>

AnchorRows(frame, anchor_cols) == {i \in 1..Len(frame) : HasAnchor(frame[i], anchor_cols)}

LeadingRows(frame, anchor_cols) ==
    {i \in 1..Len(frame) : \A j \in 1..i : ~HasAnchor(frame[j], anchor_cols)}

\* the cell holds text of physical row i
Mentions(cell, i) == \E p \in 1..Len(cell) : cell[p] = DigitChar[i]

(***************************************************************************)
(* C3: RowsCombine discards every row before the first row with a non-null *)
(* anchor: every output row starts at an anchor row and no output cell     *)
(* holds text of a leading row; with no anchor at all the output is empty. *)
(* The code keeps the leading rows as a group of their own (group 0) when  *)
(* a later row has an anchor, so this is violated (under SpecCombine).     *)
(***************************************************************************)
C3_LeadingRowsDiscarded ==
    (done /\ tfmr.kind = "RowsCombine") =>
        /\ AnchorRows(df, tfmr.anchor_cols) = {} => out.rows = <<>>
        /\ \A o \in DOMAIN out.rows :
              /\ HasAnchor(out.rows[o], tfmr.anchor_cols)
              /\ \A c \in DOMAIN out.rows[o] :
                     \A i \in LeadingRows(df, tfmr.anchor_cols) :
                         ~Mentions(out.rows[o][c], i)

\* the physical row that starts the g-th logical group
GroupStart(frame, anchor_cols, g) ==
    CHOOSE i \in AnchorRows(frame, anchor_cols) :
        Cardinality({j \in AnchorRows(frame, anchor_cols) : j <= i}) = g

\* the last physical row of the g-th logical group
GroupEnd(frame, anchor_cols, g) ==
    IF g = Cardinality(AnchorRows(frame, anchor_cols)) THEN Len(frame)
    ELSE GroupStart(frame, anchor_cols, g + 1) - 1

(***************************************************************************)
(* C4: RowsCombine outputs exactly one row per logical group, a group      *)
(* running from a row with a non-null anchor to the row before the next    *)
(* such row, in group order, and the concat column of the g-th output row  *)
(* is the join of the g-th group's cells in physical order.                *)
(* Violated with C3: the leading rows make an output row of their own.     *)
(***************************************************************************)
C4_OneRowPerGroup ==
    (done /\ tfmr.kind = "RowsCombine") =>
        /\ Len(out.rows) = Cardinality(AnchorRows(df, tfmr.anchor_cols))
        /\ \A g \in DOMAIN out.rows : \A c \in Range(tfmr.concat_cols) :
              g <= Cardinality(AnchorRows(df, tfmr.anchor_cols)) =>
                out.rows[g][c] =
                    Join([i \in 1..(GroupEnd(df, tfmr.anchor_cols, g)
                                    - GroupStart(df, tfmr.anchor_cols, g) + 1) |->
                            Format(df[GroupStart(df, tfmr.anchor_cols, g) + i - 1][c])],
                         tfmr.sep)

\* the text the patterns are matched against; a missing cell has none
FilterTarget(tf, row) ==
    IF tf.column # "" THEN FillNa(row[tf.column]) ELSE GetLine(row, FrameCols)

MatchesSomePattern(tf, row) ==
    /\ tf.column # "" => ~IsNull(row[tf.column])
    /\ \E i \in DOMAIN tf.exclude_regex :
          Contains(FilterTarget(tf, row), tf.exclude_regex[i])

(***************************************************************************)
(* C5: RowsFilter removes exactly the rows whose target (the cell of the   *)
(* given column, or the whole row's text when no column is given) matches  *)
(* at least one exclusion pattern, keeps every other row unchanged and in  *)
(* order, and returns an empty frame as it is.                             *)
(* Violated (under SpecFilter): with no pattern the joined regex is empty  *)
(* and matches every row; a missing target cell makes the mask inversion   *)
(* raise.                                                                  *)
(***************************************************************************)
C5_FilterRemovesExactlyMatches ==
    (done /\ tfmr.kind = "RowsFilter") =>
        /\ ~out.raised
        /\ out.rows = SelectSeq(df, LAMBDA row : ~MatchesSomePattern(tfmr, row))

\* the row's target text: its target columns' cells, missing ones empty
TargetText(tf, row) ==
    LET cols == IF tf.regex_columns = <<>> THEN FrameCols ELSE tf.regex_columns
    IN  Join([i \in 1..Len(cols) |-> FillNa(row[cols[i]])], <<>>)

RowMatches(tf, row) == Contains(TargetText(tf, row), tf.regex.prefix)

\* the matching rows at or before row i
MatchesUpTo(tf, frame, i) == {j \in 1..i : RowMatches(tf, frame[j])}

(***************************************************************************)
(* C10: ExtractNewColumn gives each row the first capture group of the     *)
(* regex on the row's concatenated target columns; a row without a match   *)
(* takes the value of the nearest matching row before it, a row before the *)
(* first matching row gets null, and no row takes a value from a later     *)
(* row; the other columns and the row order stay (under SpecDerive).       *)
(***************************************************************************)
C10_ForwardFill ==
    (done /\ tfmr.kind = "ExtractNewColumn") =>
        /\ Len(out.rows) = Len(df)
        /\ \A i \in DOMAIN df :
              /\ \A c \in DOMAIN df[i] : out.rows[i][c] = df[i][c]
              /\ IF MatchesUpTo(tfmr, df, i) = {}
                 THEN out.rows[i][tfmr.name] = NaN
                 ELSE LET j == CHOOSE m \in MatchesUpTo(tfmr, df, i) :
                                   \A n \in MatchesUpTo(tfmr, df, i) : n <= m
                      IN  out.rows[i][tfmr.name] =
                              StrExtract(TargetText(tfmr, df[j]), tfmr.regex)

\* a row without a match after a matching row, followed by a row that matches
\* with another value: the middle row has the earlier value
C10_Witness ==
    /\ done
    /\ tfmr.kind = "ExtractNewColumn"
    /\ Len(df) = 3
    /\ RowMatches(tfmr, df[1])
    /\ ~RowMatches(tfmr, df[2])
    /\ RowMatches(tfmr, df[3])
    /\ out.rows[1]["N"] # out.rows[3]["N"]
    /\ out.rows[2]["N"] = out.rows[1]["N"]
    /\ out.rows[1]["N"] # <<>>

\* the first rule as the claim states it
DropTrailingMinus(cell) ==
    IF /\ ~IsNull(cell)
       /\ Len(cell) >= 2
       /\ cell[Len(cell)] = "-"
       /\ cell[Len(cell) - 1] \in Digits
    THEN SubSeq(cell, 1, Len(cell) - 1)
    ELSE cell

ClaimedNumeric(col, cell) ==
    FlipSign(ToNumeric(ParenToMinus(CreditToMinus(StripCurrency(DropTrailingMinus(cell))))),
             col.flip_sign)

(***************************************************************************)
(* C6: NumericColumn gives each cell the number of the normalization rules *)
(* applied in order, the first of which drops a minus only where it ends   *)
(* the cell after a digit run ("150-" gives 150) and keeps every other     *)
(* minus as a sign; then '$' and ',' go, a trailing " CR" negates,         *)
(* parentheses negate, and flip_sign negates once more.                    *)
(* Violated (under SpecNumeric): the code looks for a digit followed by a  *)
(* minus anywhere in the cell and then removes every minus of the cell.    *)
(***************************************************************************)
C6_NumericNormalization ==
    (done /\ tfmr.kind = "NumericColumn") =>
        out.rows[1][tfmr.name] = ClaimedNumeric(tfmr, df[1][tfmr.name])

\* the numbers written in a 'dd/mm' and in a 'yyyymm' cell
CellDay(cell) == Decimal(SubSeq(cell, 1, 2))
CellMonth(cell) == Decimal(SubSeq(cell, 4, 5))
CellYear(cell) == Decimal(SubSeq(cell, 1, 4))
CellYearMonth(cell) == Decimal(SubSeq(cell, 5, 6))

(***************************************************************************)
(* C7: with a reference date R in the context and a day/month format,      *)
(* DateColumn gives a cell that is a day of R's year that day and month in *)
(* R's year, one year earlier if and only if it lies more than 300 days    *)
(* after R, so that the result is at most 300 days after R; a cell that is *)
(* no day of R's year becomes null.  Without a reference date the cell is  *)
(* parsed with the format alone and not shifted: "201010" with %Y%m is     *)
(* 2010-10-01 (under SpecDate).                                            *)
(***************************************************************************)
C7_DateYearInference ==
    (done /\ tfmr.kind = "DateColumn") =>
        LET cell == df[1][tfmr.name]
            res == out.rows[1][tfmr.name]
        IN  /\ ( /\ tfmr.format = DayMonthFormat
                 /\ "stmt_date" \in DOMAIN ctx
                 /\ cell \in DayMonthCells ) =>
                   LET R == ctx["stmt_date"]
                       inYear == <<R[1], CellMonth(cell), CellDay(cell)>>
                   IN  IF ValidDate(R[1], CellMonth(cell), CellDay(cell))
                       THEN /\ ~res.null
                            /\ res.date =
                                 IF DayNumber(inYear) - DayNumber(R) > 300
                                 THEN <<R[1] - 1, CellMonth(cell), CellDay(cell)>>
                                 ELSE inYear
                            /\ DayNumber(res.date) - DayNumber(R) <= 300
                       ELSE res.null
            /\ ( /\ tfmr.format = DayMonthFormat
                 /\ "stmt_date" \notin DOMAIN ctx
                 /\ cell \in DayMonthCells ) =>
                   IF ValidDate(1900, CellMonth(cell), CellDay(cell))
                   THEN res = DateV(<<1900, CellMonth(cell), CellDay(cell)>>)
                   ELSE res.null
            /\ ( /\ tfmr.format = YearMonthFormat
                 /\ "stmt_date" \notin DOMAIN ctx
                 /\ cell \in YearMonthCells ) =>
                   IF CellYearMonth(cell) \in 1..12
                   THEN res = DateV(<<CellYear(cell), CellYearMonth(cell), 1>>)
                   ELSE res.null
            /\ ( /\ tfmr.format = YearMonthFormat
                 /\ "stmt_date" \notin DOMAIN ctx
                 /\ cell = <<"2", "0", "1", "0", "1", "0">> ) =>
                   res = DateV(<<2010, 10, 1>>)

\* a cell 301 days after the reference date came out in the year before it
C7_Witness ==
    /\ done
    /\ tfmr.kind = "DateColumn"
    /\ tfmr.format = DayMonthFormat
    /\ "stmt_date" \in DOMAIN ctx
    /\ df[1]["D"] \in DayMonthCells
    /\ ValidDate(ctx["stmt_date"][1], CellMonth(df[1]["D"]), CellDay(df[1]["D"]))
    /\ DayNumber(<<ctx["stmt_date"][1], CellMonth(df[1]["D"]), CellDay(df[1]["D"])>>)
           - DayNumber(ctx["stmt_date"]) = 301
    /\ out.rows[1]["D"] =
           DateV(<<ctx["stmt_date"][1] - 1, CellMonth(df[1]["D"]), CellDay(df[1]["D"])>>)

\* the row with every processed column coerced
CoercedRow(tf, row, kw) ==
    [c \in DOMAIN row |->
        IF \E i \in DOMAIN tf.columns : tf.columns[i].name = c
        THEN LET col == tf.columns[CHOOSE i \in DOMAIN tf.columns : tf.columns[i].name = c]
             IN  IF col.kind = "DateColumn" THEN DateProcess(col, row[c], kw)
                 ELSE NumericProcess(col, row[c])
        ELSE row[c]]

\* a column marked drop_null has a null in the coerced row
HasDroppedNull(tf, crow) ==
    \E i \in DOMAIN tf.columns : tf.columns[i].drop_null /\ crow[tf.columns[i].name].null

(***************************************************************************)
(* C8: ColumnsProcess never fails on a cell that cannot be coerced: the    *)
(* cell becomes null; the result holds, in the input's order, exactly the  *)
(* rows that have no null in a column marked drop_null, every cell         *)
(* coerced, so a null of a column not marked drop_null stays in the result *)
(* (under SpecColumns).                                                    *)
(***************************************************************************)
C8_ParseNullHandling ==
    (done /\ tfmr.kind = "ColumnsProcess") =>
        /\ ~out.raised
        /\ out.rows =
             SelectSeq([i \in 1..Len(df) |-> CoercedRow(tfmr, df[i], ctx)],
                       LAMBDA crow : ~HasDroppedNull(tfmr, crow))

\* of three rows the middle one went for a null date (drop_null), the last one
\* stayed with a null amount (not drop_null)
C8_Witness ==
    /\ done
    /\ tfmr.kind = "ColumnsProcess"
    /\ tfmr.columns = <<DateSpec(TRUE), NumericSpec(FALSE)>>
    /\ Len(df) = 3
    /\ Len(out.rows) = 2
    /\ df[2]["D"] = <<"3", "1", "/", "0", "2">>
    /\ df[3]["N"] = <<"C", "R">>
    /\ ~out.rows[1]["N"].null
    /\ out.rows[2]["N"].null
    /\ ~out.rows[2]["D"].null

\* the logical group the o-th output row stands for (the leading rows, when
\* they make a row of their own, stand for group 0)
OutputGroup(frame, anchor_cols, o) == GroupId(frame, anchor_cols, 1) + o - 1

(***************************************************************************)
(* C11: in every output row of RowsCombine that stands for a logical group *)
(* (a group that starts at a row with a non-null anchor), each anchor      *)
(* column and each first column holds the cell of the group's first        *)
(* physical row, a null cell included.                                     *)
(* GroupBy.first() skips nulls: a first column that is null in the group's *)
(* first row takes the first non-null cell of a later row of the group, so *)
(* this is violated (under SpecCombine).                                   *)
(***************************************************************************)
C11_FirstPhysicalRow ==
    (done /\ tfmr.kind = "RowsCombine") =>
        \A o \in DOMAIN out.rows :
            OutputGroup(df, tfmr.anchor_cols, o) >= 1 =>
                \A c \in Range(tfmr.anchor_cols) \cup Range(tfmr.first_cols) :
                    out.rows[o][c] =
                        df[GroupStart(df, tfmr.anchor_cols,
                                      OutputGroup(df, tfmr.anchor_cols, o))][c]

\* what the code does keep: the anchor columns of a logical group's
\* output row are those of the group's first physical row
AnchorsFromFirstRow ==
    (done /\ tfmr.kind = "RowsCombine") =>
        \A o \in DOMAIN out.rows :
            OutputGroup(df, tfmr.anchor_cols, o) >= 1 =>
                \A c \in Range(tfmr.anchor_cols) :
                    out.rows[o][c] =
                        df[GroupStart(df, tfmr.anchor_cols,
                                      OutputGroup(df, tfmr.anchor_cols, o))][c]

\* the request r is inside one file's run of process_df
InRun(r) == pc[r] \in {"process_df", "merge"}

\* a step inside a file's run leaves every key of the context as it is
KeysKept ==
    \A r \in Requests :
        (InRun(r) /\ pc'[r] \in {"process_df", "merge"}) =>
            \A x \in DOMAIN kwargs[r] :
                x \in DOMAIN kwargs'[r] /\ kwargs'[r][x] = kwargs[r][x]

\* a transformer before the t-th of the chain has set the key in this run: it
\* is an ExtractMeta and its regex finds the value in the file (the caller,
\* _extract_file, passes no key in)
SetEarlier(r) ==
    \E i \in 1..(t[r] - 1) : Chain[i] = "ExtractMeta" /\ cur[r].hasDate

\* what the t-th transformer (or, after the last, the tagging step) receives
ReceivesWhatWasSet ==
    \A r \in Requests :
        pc[r] = "process_df" =>
            /\ ChainKey \in DOMAIN kwargs[r] <=> SetEarlier(r)
            /\ ChainKey \in DOMAIN kwargs[r] => kwargs[r][ChainKey] = DateIn(cur[r])

\* the records of the file just finished carry the context's stmt_date
TaggedFromContext ==
    \A r \in Requests :
        (pc[r] = "extract_file" /\ Len(data[r]) > 0) =>
            data[r][Len(data[r])].StatementDate = StatementDate(kwargs[r])

(***************************************************************************)
(* C12: during one file's run of process_df a key of the metadata context  *)
(* never changes its value once it is there; a transformer receives a key  *)
(* exactly when a transformer earlier in the chain has set it in this run  *)
(* (or the caller passed it in); the StatementDate of the file's records   *)
(* is the context's stmt_date.                                             *)
(* The first and the last part hold.  The second is violated with C1: an   *)
(* ExtractMeta whose cache still holds the key of a file that failed skips *)
(* its search, and the merge hands the later transformers the other file's *)
(* value, which no transformer has set in this run (under SpecBatch).      *)
(***************************************************************************)
C12_ContextWriteOnce ==
    [][KeysKept /\ ReceivesWhatWasSet' /\ TaggedFromContext']_vars

\* the parts of C12 the code keeps
ContextKeptAndTagged == [][KeysKept /\ TaggedFromContext']_vars

=============================================================================
